---- MODULE Spec2Model ----
(***************************************************************************)
(* PromptDec: deck/card store, GitHub export and import handlers, deck     *)
(* serialization and semantic search, as written in the repository's       *)
(* migrations, components and implementation documents.                    *)
(***************************************************************************)
EXTENDS Integers, Sequences, FiniteSets, TLC

\* ----------------------------------------------------------------- bounds
MaxDecks == 2
MaxCards == 2
MaxReqs == 2
MaxClock == 1
\* cards of a deck that is serialized
MaxLen == 3
\* candidate cards of a search
MaxCands == 3
\* rows in the tables under row-level security
MaxRows == 3
\* calls made on the auth store
MaxCalls == 3
\* getEmbedding calls that are made
MaxCallers == 2
\* length of the vectors of the embedding model (384 for all-MiniLM-L6-v2)
EmbeddingDim == 2
\* pybreaker: CircuitBreaker(fail_max=5, reset_timeout=60)
fail_max == 5
\* cacheEmbedding: ttl: 24 * 60 * 60, the 24 hours in seconds
ttl == 86400

\* ------------------------------------------------------------ value sets
NULL == "NULL"
DeckIds == 1..MaxDecks
CardIds == 1..MaxCards
Reqs == 1..MaxReqs
Names == {"N1", "N2"}
Descs == {NULL, "d"}
Texts == {"a", "b"}
TagLists == {<<>>, <<"t">>}
\* the inputs the interactive handlers are driven with
FormDescs == {"d"}
FormTags == {<<"t">>}
Urls == {"u1"}
Callers == 1..MaxCallers
\* values of Date.now(), in milliseconds, around the end of an entry's life
Times == {0, ttl * 1000 - 1, ttl * 1000}

VARIABLES decks, cards, github_exports, remote, req, breaker, jobs, now, nextDeck, nextCard,
          arg, out, embeddingCache, dateNow, hook, embedCalls,
          authStore, localStorage, rls_rows, pg_cards

\* the store, the repository and the requests in flight
sync == <<decks, cards, github_exports, remote, req, breaker, jobs, now, nextDeck, nextCard>>

\* argument and result of the function a function specification applies
pure == <<arg, out>>

\* the embedding cache, the clock it reads, the useEmbedding hook and the
\* getEmbedding calls in flight
embed == <<embeddingCache, dateNow, hook, embedCalls>>

\* the auth store of the page with the browser's localStorage, and on the
\* PostgreSQL backend the rows under row-level security and the cards with
\* their pgvector column
web == <<authStore, localStorage, rls_rows, pg_cards>>

vars == <<sync, pure, embed, web>>

\* ------------------------------------------------------- sequence helpers
RECURSIVE SelectRows(_, _)
SelectRows(s, d) ==
  IF s = <<>> THEN <<>>
  ELSE IF Head(s).deck_id = d THEN <<Head(s)>> \o SelectRows(Tail(s), d)
       ELSE SelectRows(Tail(s), d)

RECURSIVE DropRows(_, _)
DropRows(s, d) ==
  IF s = <<>> THEN <<>>
  ELSE IF Head(s).deck_id = d THEN DropRows(Tail(s), d)
       ELSE <<Head(s)>> \o DropRows(Tail(s), d)

\* -------------------------------------------------------------- database
\* decks.UNIQUE(user_id, name), one user
NameTaken(name) == \E d \in DOMAIN decks : decks[d].name = name

InsertDeck(d, row) == [x \in DOMAIN decks \cup {d} |-> IF x = d THEN row ELSE decks[x]]

get_deck(d) == decks[d]

get_cards(d) == SelectRows(cards, d)

\* cards.content_embedding TEXT: <<>> is SQL NULL, <<v>> holds the array v
NullEmbedding == <<>>

\* the normalized output of the feature-extraction pipeline for a text
getEmbedding(text) ==
  [i \in 1..EmbeddingDim |-> IF text = "a" THEN (IF i = 1 THEN 1 ELSE 0)
                                           ELSE (IF i = EmbeddingDim THEN 1 ELSE 0)]

\* ------------------------------------------------------------- documents
\* no argument, no result
NoValue == [kind |-> "none"]

\* no document: the value of a location that holds none
NoDoc == [kind |-> "none"]

\* a deck.json that does not have the format: it names a deck, its cards are unusable
Garbage == [kind |-> "garbage", name |-> "N2", description |-> NULL,
            version |-> "1.0", cards |-> <<>>]

serialize_card(c) ==
  [id |-> c.id,
   front |-> [customizations |-> [title |-> c.front_title]],
   back |-> [content |-> c.back_content, format |-> c.back_format],
   tags |-> c.tags,
   favorite |-> c.is_favorite]

\* mutant: the cards are written to the document last first
serialize_deck_reversed(deck, cs) ==
  [kind |-> "deck",
   name |-> deck.name,
   description |-> deck.description,
   version |-> "1.0",
   cards |-> [i \in 1..Len(cs) |-> serialize_card(cs[Len(cs) + 1 - i])]]

serialize_deck(deck, cs) ==
  [kind |-> "deck",
   name |-> deck.name,
   description |-> deck.description,
   version |-> "1.0",
   cards |-> [i \in 1..Len(cs) |-> serialize_card(cs[i])]]

\* mutant: whatever was fetched is taken for a deck document
parse_deck_json_lenient(doc) == TRUE

parse_deck_json(doc) == doc.kind = "deck"

deck_from_doc(doc) == [name |-> doc.name, description |-> doc.description]

card_from_doc(c, id, d) ==
  [id |-> id,
   deck_id |-> d,
   front_title |-> c.front.customizations.title,
   back_content |-> c.back.content,
   back_format |-> c.back.format,
   tags |-> c.tags,
   is_favorite |-> c.favorite,
   content_embedding |-> NullEmbedding]

cards_from_doc(doc, first, d) ==
  [i \in 1..Len(doc.cards) |-> card_from_doc(doc.cards[i], first + i - 1, d)]

\* the deck and the cards an import stores for a document
deserialize(doc, d, first) ==
  [kind |-> "roundtrip",
   deck |-> deck_from_doc(doc),
   cards |-> cards_from_doc(doc, first, d)]

\* -------------------------------------------------------------- requests
\* calls counts the calls of the GitHub client the request has issued
FreeReq == [kind |-> "none", pc |-> "free", deck |-> 0, url |-> NULL,
            doc |-> NoDoc, made |-> 0, calls |-> 0, result |-> NULL]

InFlight(r) == req[r].pc \notin {"free", "done"}

\* requests are numbered in the order they arrive
NextReq(r) == req[r].pc = "free" /\ \A q \in Reqs : q < r => req[q].pc # "free"

\* a row of cards as POST /cards stores it
NewCard(id, d, text, tags) ==
  [id |-> id, deck_id |-> d, front_title |-> "T",
   back_content |-> text, back_format |-> "markdown", tags |-> tags,
   is_favorite |-> FALSE, content_embedding |-> NullEmbedding]

\* the store of a new user
EmptyStore ==
  /\ decks = <<>>
  /\ cards = <<>>
  /\ nextDeck = 1
  /\ nextCard = 1

\* the store of a user who has made one deck with one card
SeededStore ==
  /\ decks = <<[name |-> "N1", description |-> "d"]>>
  /\ cards = <<NewCard(1, 1, "a", <<"t">>)>>
  /\ nextDeck = 2
  /\ nextCard = 2

\* a caller that has not called getEmbedding
FreeCall == [pc |-> "free", text |-> NULL, card |-> 0, after_failure |-> FALSE,
             result |-> [kind |-> "none"]]

\* the page has mounted useEmbedding, whose effect awaits pipeline(); the
\* cache is empty and nobody has called getEmbedding
InitEmbed ==
  /\ embeddingCache = <<>>
  /\ dateNow = 0
  /\ hook = [extractor |-> NULL, isLoading |-> TRUE, initModel |-> "pending"]
  /\ embedCalls = [c \in Callers |-> FreeCall]

\* localStorage.getItem("auth_token") of a browser that holds no token
NoItem == <<>>

\* create<AuthState>(...): the store as the page creates it over the item
\* that localStorage holds under "auth_token"
useAuthStore_create(item) ==
  /\ localStorage = item
  /\ authStore = [user |-> NULL,
                  token |-> IF item = NoItem THEN NULL ELSE item[1],
                  isAuthenticated |-> item # NoItem /\ item # <<"">>]

\* a fresh PostgreSQL database: no rows
InitTables ==
  /\ rls_rows = <<>>
  /\ pg_cards = <<>>

\* no export logged, no request, nothing in the repository
InitCore ==
  /\ github_exports = <<>>
  /\ remote = [u \in Urls |-> NoDoc]
  /\ req = [r \in Reqs |-> FreeReq]
  /\ jobs = {}
  /\ now = 0
  /\ InitEmbed

\* the same in a browser that holds no token, on a fresh database
InitRest ==
  /\ InitCore
  /\ InitTables
  /\ useAuthStore_create(NoItem)

\* ------------------------------------------------------------ deck, card
CreateDeck(name, desc) ==
  /\ nextDeck <= MaxDecks
  /\ ~NameTaken(name)
  /\ decks' = InsertDeck(nextDeck, [name |-> name, description |-> desc])
  /\ nextDeck' = nextDeck + 1
  /\ UNCHANGED <<cards, github_exports, remote, req, breaker, jobs, now, nextCard, pure, embed, web>>

UpdateDeck(d, name) ==
  /\ d \in DOMAIN decks
  /\ decks[d].name # name
  /\ ~NameTaken(name)
  /\ decks' = [decks EXCEPT ![d].name = name]
  /\ UNCHANGED <<cards, github_exports, remote, req, breaker, jobs, now, nextDeck, nextCard, pure, embed, web>>

\* mutant: the deck row is deleted and its cards are left behind
DeleteDeck_no_cascade(d) ==
  /\ d \in DOMAIN decks
  /\ decks' = [x \in DOMAIN decks \ {d} |-> decks[x]]
  /\ github_exports' = [x \in DOMAIN github_exports \ {d} |-> github_exports[x]]
  /\ UNCHANGED <<cards, remote, req, breaker, jobs, now, nextDeck, nextCard, pure, embed, web>>

DeleteDeck(d) ==
  /\ d \in DOMAIN decks
  /\ decks' = [x \in DOMAIN decks \ {d} |-> decks[x]]
  /\ cards' = DropRows(cards, d)
  /\ github_exports' = [x \in DOMAIN github_exports \ {d} |-> github_exports[x]]
  /\ UNCHANGED <<remote, req, breaker, jobs, now, nextDeck, nextCard, pure, embed, web>>

\* on card save: the embedding of the new content is computed and saved with it
UpdateCard(i, text) ==
  /\ i \in 1..Len(cards)
  /\ cards[i].back_content # text
  /\ cards' = [cards EXCEPT ![i].back_content = text,
                            ![i].content_embedding = <<getEmbedding(text)>>]
  /\ UNCHANGED <<decks, github_exports, remote, req, breaker, jobs, now, nextDeck, nextCard, pure, embed, web>>

\* ------------------------------------------------------ circuit breaker
\* pybreaker: a failure counts; at fail_max the circuit opens
breaker_fail(b) ==
  IF b.state = "half-open" \/ b.fail_counter + 1 >= fail_max
  THEN [state |-> "open", fail_counter |-> IF b.fail_counter < fail_max THEN b.fail_counter + 1 ELSE fail_max]
  ELSE [state |-> "closed", fail_counter |-> b.fail_counter + 1]

\* pybreaker: a success closes the circuit and clears the counter
breaker_success(b) == [state |-> "closed", fail_counter |-> 0]

\* reset_timeout elapsed: the next call is let through as a trial
BreakerTimeout ==
  /\ breaker.state = "open"
  /\ breaker' = [breaker EXCEPT !.state = "half-open"]
  /\ UNCHANGED <<decks, cards, github_exports, remote, req, jobs, now, nextDeck, nextCard, pure, embed, web>>

\* ---------------------------------------------------- POST /github/export
log_export(d, url) ==
  [x \in DOMAIN github_exports \cup {d} |->
     IF x = d THEN [github_repo_url |-> url, last_exported_at |-> now]
     ELSE github_exports[x]]

\* the handler up to the call of the GitHub client
export_to_github(r, d, url) ==
  /\ NextReq(r)
  /\ d \in DOMAIN decks
  /\ IF breaker.state = "open"
     THEN req' = [req EXCEPT ![r] = [FreeReq EXCEPT !.kind = "export", !.pc = "done",
                     !.deck = d, !.url = url, !.result = "error"]]
     ELSE req' = [req EXCEPT ![r] = [FreeReq EXCEPT !.kind = "export", !.pc = "put",
                     !.deck = d, !.url = url, !.calls = 1,
                     !.doc = serialize_deck(get_deck(d), get_cards(d))]]
  /\ UNCHANGED <<decks, cards, github_exports, remote, breaker, jobs, now, nextDeck, nextCard, pure, embed, web>>

\* the GitHub client returns: the repository holds the document, the export is logged
ExportOk(r) ==
  /\ req[r].kind = "export" /\ req[r].pc = "put"
  /\ remote' = [remote EXCEPT ![req[r].url] = req[r].doc]
  /\ breaker' = breaker_success(breaker)
  /\ IF req[r].deck \in DOMAIN decks
     THEN /\ github_exports' = log_export(req[r].deck, req[r].url)
          /\ req' = [req EXCEPT ![r].pc = "done", ![r].result = "success"]
     ELSE /\ github_exports' = github_exports
          /\ req' = [req EXCEPT ![r].pc = "done", ![r].result = "error"]
  /\ UNCHANGED <<decks, cards, jobs, now, nextDeck, nextCard, pure, embed, web>>

\* mutant: the failed export is logged all the same
ExportErr_logged(r) ==
  /\ req[r].kind = "export" /\ req[r].pc = "put"
  /\ breaker' = breaker_fail(breaker)
  /\ req' = [req EXCEPT ![r].pc = "done", ![r].result = "error"]
  /\ github_exports' = IF req[r].deck \in DOMAIN decks
                       THEN log_export(req[r].deck, req[r].url)
                       ELSE github_exports
  /\ UNCHANGED <<decks, cards, remote, jobs, now, nextDeck, nextCard, pure, embed, web>>

\* mutant: the failed call is issued again by the handler
ExportErr_retried(r) ==
  /\ req[r].kind = "export" /\ req[r].pc = "put"
  /\ breaker' = breaker_fail(breaker)
  /\ req' = IF req[r].calls < 2
            THEN [req EXCEPT ![r].calls = @ + 1]
            ELSE [req EXCEPT ![r].pc = "done", ![r].result = "error"]
  /\ UNCHANGED <<decks, cards, github_exports, remote, jobs, now, nextDeck, nextCard, pure, embed, web>>

\* the GitHub client raises: except: return {"error": ...}
ExportErr(r) ==
  /\ req[r].kind = "export" /\ req[r].pc = "put"
  /\ breaker' = breaker_fail(breaker)
  /\ req' = [req EXCEPT ![r].pc = "done", ![r].result = "error"]
  /\ UNCHANGED <<decks, cards, github_exports, remote, jobs, now, nextDeck, nextCard, pure, embed, web>>

\* ---------------------------------------------------- POST /github/import
\* 1. fetch repo contents via GitHub API
import_from_github(r, url) ==
  /\ NextReq(r)
  /\ req' = [req EXCEPT ![r] = [FreeReq EXCEPT !.kind = "import", !.pc = "get", !.url = url,
                  !.calls = 1]]
  /\ UNCHANGED <<decks, cards, github_exports, remote, breaker, jobs, now, nextDeck, nextCard, pure, embed, web>>

ImportFetched(r) ==
  /\ req[r].kind = "import" /\ req[r].pc = "get"
  /\ remote[req[r].url] # NoDoc
  /\ req' = [req EXCEPT ![r].pc = "parse", ![r].doc = remote[req[r].url]]
  /\ UNCHANGED <<decks, cards, github_exports, remote, breaker, jobs, now, nextDeck, nextCard, pure, embed, web>>

ImportFetchErr(r) ==
  /\ req[r].kind = "import" /\ req[r].pc = "get"
  /\ req' = [req EXCEPT ![r].pc = "done", ![r].result = "error"]
  /\ UNCHANGED <<decks, cards, github_exports, remote, breaker, jobs, now, nextDeck, nextCard, pure, embed, web>>

\* mutant: a deck of the document's name is taken over and emptied
ImportCreateDeck_overwriting(r) ==
  /\ req[r].kind = "import" /\ req[r].pc = "parse"
  /\ IF ~parse_deck_json(req[r].doc)
     THEN /\ req' = [req EXCEPT ![r].pc = "done", ![r].result = "malformed"]
          /\ UNCHANGED <<decks, cards, nextDeck>>
     ELSE IF NameTaken(req[r].doc.name)
     THEN LET d == CHOOSE x \in DOMAIN decks : decks[x].name = req[r].doc.name IN
          /\ req' = [req EXCEPT ![r].pc = "cards", ![r].made = d]
          /\ cards' = DropRows(cards, d)
          /\ UNCHANGED <<decks, nextDeck>>
     ELSE /\ nextDeck <= MaxDecks
          /\ decks' = InsertDeck(nextDeck, deck_from_doc(req[r].doc))
          /\ nextDeck' = nextDeck + 1
          /\ req' = [req EXCEPT ![r].pc = "cards", ![r].made = nextDeck]
          /\ UNCHANGED cards
  /\ UNCHANGED <<github_exports, remote, breaker, jobs, now, nextCard, pure, embed, web>>

\* 2. parse deck.json  3. create deck in database
ImportCreateDeck(r) ==
  /\ req[r].kind = "import" /\ req[r].pc = "parse"
  /\ IF ~parse_deck_json(req[r].doc)
     THEN /\ req' = [req EXCEPT ![r].pc = "done", ![r].result = "malformed"]
          /\ UNCHANGED <<decks, nextDeck>>
     ELSE IF NameTaken(req[r].doc.name)
     THEN /\ req' = [req EXCEPT ![r].pc = "done", ![r].result = "error"]
          /\ UNCHANGED <<decks, nextDeck>>
     ELSE /\ nextDeck <= MaxDecks
          /\ decks' = InsertDeck(nextDeck, deck_from_doc(req[r].doc))
          /\ nextDeck' = nextDeck + 1
          /\ req' = [req EXCEPT ![r].pc = "cards", ![r].made = nextDeck]
  /\ UNCHANGED <<cards, github_exports, remote, breaker, jobs, now, nextCard, pure, embed, web>>

\* 4. create all cards  5. generate embeddings (background job)  6. return deck id
ImportCreateCards(r) ==
  /\ req[r].kind = "import" /\ req[r].pc = "cards"
  /\ IF req[r].made \notin DOMAIN decks
     THEN /\ req' = [req EXCEPT ![r].pc = "done", ![r].result = "error"]
          /\ UNCHANGED <<cards, jobs, nextCard>>
     ELSE /\ nextCard + Len(req[r].doc.cards) - 1 <= MaxCards
          /\ cards' = cards \o cards_from_doc(req[r].doc, nextCard, req[r].made)
          /\ nextCard' = nextCard + Len(req[r].doc.cards)
          /\ jobs' = jobs \cup (nextCard .. (nextCard + Len(req[r].doc.cards) - 1))
          /\ req' = [req EXCEPT ![r].pc = "done", ![r].result = "success"]
  /\ UNCHANGED <<decks, github_exports, remote, breaker, now, nextDeck, pure, embed, web>>

\* the background job embeds one imported card
EmbedJob(id) ==
  /\ id \in jobs
  /\ jobs' = jobs \ {id}
  /\ cards' = [i \in 1..Len(cards) |->
       IF cards[i].id = id
       THEN [cards[i] EXCEPT !.content_embedding = <<getEmbedding(cards[i].back_content)>>]
       ELSE cards[i]]
  /\ UNCHANGED <<decks, github_exports, remote, req, breaker, now, nextDeck, nextCard, pure, embed, web>>

\* somebody else pushes to the repository
RemotePush(url, doc) ==
  /\ remote[url] # doc
  /\ remote' = [remote EXCEPT ![url] = doc]
  /\ UNCHANGED <<decks, cards, github_exports, req, breaker, jobs, now, nextDeck, nextCard, pure, embed, web>>

Tick ==
  /\ now < MaxClock
  /\ now' = now + 1
  /\ UNCHANGED <<decks, cards, github_exports, remote, req, breaker, jobs, nextDeck, nextCard, pure, embed, web>>

\* ------------------------------------------------- claims on the export
InFlightOn(r, d) == InFlight(r) /\ (req[r].deck = d \/ req[r].made = d)

Failed(r) == req[r].pc = "done" /\ req[r].result # "success"

\* C1: for every deck, in every reachable state, at most one sync operation
\* (export or import) is in flight for that deck.
C1_OneSyncPerDeck ==
  \A d \in DeckIds : Cardinality({r \in Reqs : InFlightOn(r, d)}) <= 1

\* C2: an export requested for a deck that already has a sync operation in
\* flight is rejected at once with ConflictingSync: it issues no call and ends
\* with that error in the step that receives it.
C2_ConflictingSyncRejected ==
  [][\A r \in Reqs : \A d \in DeckIds :
       ( /\ req[r].pc = "free"
         /\ req'[r].kind = "export"
         /\ req'[r].deck = d
         /\ \E q \in Reqs : q # r /\ InFlightOn(q, d) )
       => ( /\ req'[r].pc = "done"
            /\ req'[r].result = "conflict"
            /\ req'[r].calls = 0 )]_vars

\* C5: an export that succeeds ends with the result success and the deck's
\* export record stamped with the time of completion; an export that fails
\* ends with an error and leaves every export record as it was.
C5_ExportOutcome ==
  [][\A r \in Reqs :
       (req[r].kind = "export" /\ req[r].pc = "put" /\ req'[r].pc = "done")
       => IF req'[r].result = "success"
          THEN /\ req[r].deck \in DOMAIN github_exports'
               /\ github_exports'[req[r].deck].last_exported_at = now
               /\ github_exports'[req[r].deck].github_repo_url = req[r].url
               /\ \A d \in DOMAIN github_exports' \ {req[r].deck} :
                    d \in DOMAIN github_exports /\ github_exports'[d] = github_exports[d]
          ELSE github_exports' = github_exports]_vars

\* C5 witness: a deck was exported twice; the later export stamped the record
\* with the later time, and an export of a deck failed while its record stayed.
C5_Witness ==
  \E r, q \in Reqs : \E d \in DOMAIN github_exports :
    /\ r # q
    /\ req[r].kind = "export" /\ req[r].pc = "done" /\ req[r].result = "success"
    /\ req[q].kind = "export" /\ Failed(q) /\ req[q].calls = 1
    /\ req[r].deck = d /\ req[q].deck = d
    /\ github_exports[d].last_exported_at = MaxClock

C7_CallsEnd ==
  \A r \in Reqs : (req[r].pc \in {"put", "get"}) ~> (req[r].pc \notin {"put", "get"})

\* ------------------------------------------------- claims on the import
\* the rows hold the content and the tags of the document's cards, in order
SameCards(rows, dcs) ==
  /\ Len(rows) = Len(dcs)
  /\ \A i \in 1..Len(dcs) :
       /\ rows[i].back_content = dcs[i].back.content
       /\ rows[i].tags = dcs[i].tags

\* the deck d was exported to the repository at url
LinkedTo(d, url) ==
  d \in DOMAIN github_exports /\ github_exports[d].github_repo_url = url

ImportSucceeds(r) ==
  /\ req[r].kind = "import" /\ req[r].pc = "cards"
  /\ req'[r].pc = "done" /\ req'[r].result = "success"

StoredCards(n) ==
  [1..n -> [text : Texts, tags : TagLists, embedded : BOOLEAN]]

RowsOf(f) ==
  [i \in DOMAIN f |->
     [NewCard(i, 1, f[i].text, f[i].tags) EXCEPT
        !.content_embedding = IF f[i].embedded THEN <<getEmbedding(f[i].text)>>
                              ELSE NullEmbedding]]

RoundTripInit ==
  /\ EmptyStore
  /\ InitRest
  /\ breaker = [state |-> "closed", fail_counter |-> 0]
  /\ \E n \in Names, ds \in Descs, k \in 0..MaxLen : \E f \in StoredCards(k) :
       arg = [kind |-> "deck", deck |-> [name |-> n, description |-> ds], cards |-> RowsOf(f)]
  /\ out = NoValue

\* export of the deck, then import of the document into another store
RoundTrip ==
  /\ out = NoValue
  /\ out' = deserialize(serialize_deck(arg.deck, arg.cards), 1, 1)
  /\ UNCHANGED <<sync, arg, embed, web>>

RoundTripNext == RoundTrip

RoundTripSpec == RoundTripInit /\ [][RoundTripNext]_vars

RECURSIVE Sum(_, _)
\* f[1] + ... + f[n]
Sum(f, n) == IF n = 0 THEN 0 ELSE f[n] + Sum(f, n - 1)

Min(a, b) == IF a < b THEN a ELSE b

Take(s, n) == SubSeq(s, 1, Min(n, Len(s)))

\* a number n / sqrt(d), d > 0, or NaN
NaN == [nan |-> TRUE, n |-> 0, d |-> 1]

Num(n, d) == [nan |-> FALSE, n |-> n, d |-> d]

\* x > y as IEEE-754 compares: false when either is NaN
Gt(x, y) ==
  /\ ~x.nan /\ ~y.nan
  /\ IF x.n >= 0 /\ y.n < 0 THEN TRUE
     ELSE IF x.n < 0 /\ y.n >= 0 THEN FALSE
     ELSE IF x.n >= 0 THEN x.n * x.n * y.d > y.n * y.n * x.d
     ELSE x.n * x.n * y.d < y.n * y.n * x.d

\* dot / (magA * magB); b[i] is undefined beyond the end of b
cosineSimilarity(a, b) ==
  LET magA2 == Sum([i \in 1..Len(a) |-> a[i] * a[i]], Len(a))
      magB2 == Sum([i \in 1..Len(b) |-> b[i] * b[i]], Len(b))
  IN IF Len(b) < Len(a) THEN NaN
     ELSE IF magA2 * magB2 = 0 THEN NaN
     ELSE Num(Sum([i \in 1..Len(a) |-> a[i] * b[i]], Len(a)), magA2 * magB2)

\* the threshold tn / td as a number
Threshold(t) == Num(t.n, t.d * t.d)

RECURSIVE InsertDesc(_, _)
\* x put behind every element that does not sort after it
InsertDesc(sorted, x) ==
  IF sorted = <<>> THEN <<x>>
  ELSE IF Gt(x.similarity, Head(sorted).similarity) THEN <<x>> \o sorted
       ELSE <<Head(sorted)>> \o InsertDesc(Tail(sorted), x)

RECURSIVE SortDesc(_)
\* Array.prototype.sort((a, b) => b.similarity - a.similarity), which is stable
SortDesc(s) ==
  IF s = <<>> THEN <<>>
  ELSE InsertDesc(SortDesc(SubSeq(s, 1, Len(s) - 1)), s[Len(s)])

RECURSIVE Filter(_, _)
\* .filter(r => r.similarity > threshold)
Filter(s, t) ==
  IF s = <<>> THEN <<>>
  ELSE IF Gt(Head(s).similarity, Threshold(t)) THEN <<Head(s)>> \o Filter(Tail(s), t)
       ELSE Filter(Tail(s), t)

\* the client-side search over the cards, for the embedding of the query
semanticSearch(queryEmbedding, cs, threshold) ==
  IF \E i \in 1..Len(cs) : cs[i].content_embedding = NullEmbedding
  THEN [kind |-> "throws"]
  ELSE [kind |-> "results", impl |-> "semanticSearch",
        rows |-> SortDesc(Filter(
          [i \in 1..Len(cs) |->
             [id |-> cs[i].id,
              similarity |-> cosineSimilarity(queryEmbedding, cs[i].content_embedding[1])]],
          threshold))]

\* content_embedding <-> $1, squared
L2Squared(a, b) == Sum([i \in 1..Len(a) |-> (a[i] - b[i]) * (a[i] - b[i])], Len(a))

\* 1 - (content_embedding <-> $1) > $3
SqlAbove(d2, t) == t.d - t.n > 0 /\ d2 * t.d * t.d < (t.d - t.n) * (t.d - t.n)

RECURSIVE SqlWhere(_, _, _)
\* the rows of the WHERE clause; a NULL embedding compares as NULL
SqlWhere(q, cs, t) ==
  IF cs = <<>> THEN <<>>
  ELSE LET c == Head(cs) IN
       IF c.content_embedding = NullEmbedding THEN SqlWhere(q, Tail(cs), t)
       ELSE IF SqlAbove(L2Squared(q, c.content_embedding[1]), t)
            THEN <<[id |-> c.id, distance2 |-> L2Squared(q, c.content_embedding[1])]>>
                 \o SqlWhere(q, Tail(cs), t)
            ELSE SqlWhere(q, Tail(cs), t)

\* ORDER BY content_embedding <-> $1: every order of the rows that ascends
OrderBy(rows) ==
  LET n == Len(rows)
      perms == {p \in [1..n -> 1..n] : \A i, j \in 1..n : i # j => p[i] # p[j]}
  IN {[i \in 1..n |-> rows[p[i]]] : p \in
        {p \in perms : \A i, j \in 1..n : i < j => rows[p[i]].distance2 <= rows[p[j]].distance2}}

\* the results the query of POST /search/semantic can return
semantic_search(q, cs, limit, threshold) ==
  {[kind |-> "results", impl |-> "semantic_search", rows |-> Take(o, limit)] :
     o \in OrderBy(SqlWhere(q, cs, threshold))}

\* vectors of the model's length, one too short, one too long
FullVecs == [1..EmbeddingDim -> {0, 1}]

Vecs == FullVecs \cup {[i \in 1..(EmbeddingDim - 1) |-> 1], [i \in 1..(EmbeddingDim + 1) |-> 1]}

Queries == {[i \in 1..EmbeddingDim |-> IF i = 1 THEN 1 ELSE 0], [i \in 1..EmbeddingDim |-> 1]}

Thresholds == {[n |-> 0, d |-> 1], [n |-> 3, d |-> 5]}

Limits == {1, 2, 10}

SearchInit ==
  /\ EmptyStore
  /\ InitRest
  /\ breaker = [state |-> "closed", fail_counter |-> 0]
  /\ \E k \in 0..MaxCands : \E e \in [1..k -> {<<v>> : v \in Vecs} \cup {NullEmbedding}] :
     \E q \in Queries, t \in Thresholds, l \in Limits :
       arg = [kind |-> "search", query |-> q, threshold |-> t, limit |-> l,
              cards |-> [i \in 1..k |-> [id |-> i, content_embedding |-> e[i]]]]
  /\ out = NoValue

\* semanticSearch(query, cards, threshold) in the browser
SearchClient ==
  /\ out = NoValue
  /\ out' = semanticSearch(arg.query, arg.cards, arg.threshold)
  /\ UNCHANGED <<sync, arg, embed, web>>

\* the vector(n) column holds vectors of the model's length only
SqlStorable(cs) ==
  \A i \in 1..Len(cs) :
    IF cs[i].content_embedding = NullEmbedding THEN TRUE
    ELSE Len(cs[i].content_embedding[1]) = EmbeddingDim

\* POST /search/semantic on the server
SearchServer ==
  /\ out = NoValue
  /\ SqlStorable(arg.cards)
  /\ out' \in semantic_search(arg.query, arg.cards, arg.limit, arg.threshold)
  /\ UNCHANGED <<sync, arg, embed, web>>

SearchNext == SearchClient \/ SearchServer

SearchSpec == SearchInit /\ [][SearchNext]_vars

\* ---------------------------------------------------------- claim C10
\* row x of a result scores strictly higher than row y
Better(x, y) ==
  IF out.impl = "semanticSearch" THEN Gt(x.similarity, y.similarity)
  ELSE x.distance2 < y.distance2

\* row x of a result scores strictly above the threshold of the search
Above(x) ==
  IF out.impl = "semanticSearch" THEN Gt(x.similarity, Threshold(arg.threshold))
  ELSE SqlAbove(x.distance2, arg.threshold)

\* C10: the result of a search is strictly sorted by descending score, every
\* returned score is strictly greater than the threshold, and the result has
\* at most limit rows.
C10_Ranking ==
  out.kind = "results" =>
    /\ \A i, j \in 1..Len(out.rows) : i < j => Better(out.rows[i], out.rows[j])
    /\ \A i \in 1..Len(out.rows) : Above(out.rows[i])
    /\ Len(out.rows) <= arg.limit

\* ---------------------------------------------------------- claim C11
\* the embedding of the candidate card with the given id
EmbeddingOf(id) ==
  arg.cards[CHOOSE i \in 1..Len(arg.cards) : arg.cards[i].id = id].content_embedding[1]

\* C11: a candidate whose vector length differs from the length of the query
\* vector, shorter or longer, never appears in the result of a search.
C11_DimensionGuard ==
  out.kind = "results" =>
    \A i \in 1..Len(out.rows) : Len(EmbeddingOf(out.rows[i].id)) = Len(arg.query)

\* ---------------------------------------------------------- claim C12
\* the cards in the order p
Permuted(cs, p) == [i \in 1..Len(cs) |-> cs[p[i]]]

\* C12: candidates of equal score come out in the order of their ids, and the
\* result of the search is the same for every order of the same candidates.
C12_TieBreakById ==
  out.kind = "results" =>
    /\ \A i, j \in 1..Len(out.rows) :
         (i < j /\ ~Better(out.rows[i], out.rows[j])) => out.rows[i].id < out.rows[j].id
    /\ out.impl = "semanticSearch" =>
         \A p \in Permutations(1..Len(arg.cards)) :
           semanticSearch(arg.query, Permuted(arg.cards, p), arg.threshold) = out

\* ------------------------------------------------------ embedding cache
\* the key of a text in the cache (MD5 or SHA-256 of the text)
hashText(text) == "#" \o text

\* cached && Date.now() - cached.timestamp < cached.ttl * 1000
Fresh(text) ==
  /\ hashText(text) \in DOMAIN embeddingCache
  /\ dateNow - embeddingCache[hashText(text)].timestamp
       < embeddingCache[hashText(text)].ttl * 1000

\* the cache without the key h
Delete(h) == [k \in DOMAIN embeddingCache \ {h} |-> embeddingCache[k]]

\* mutant: an entry that is no longer fresh is left in the cache
getCachedEmbedding_keeps(text) ==
  /\ out' = [kind |-> "cached", text |-> text,
             found |-> hashText(text) \in DOMAIN embeddingCache,
             value |-> IF Fresh(text) THEN <<embeddingCache[hashText(text)].embedding>>
                       ELSE NullEmbedding]
  /\ UNCHANGED embeddingCache
  /\ UNCHANGED <<sync, arg, dateNow, hook, embedCalls, web>>

\* getCachedEmbedding(text): the fresh entry's vector, else delete and null
getCachedEmbedding(text) ==
  /\ out' = [kind |-> "cached", text |-> text,
             found |-> hashText(text) \in DOMAIN embeddingCache,
             value |-> IF Fresh(text) THEN <<embeddingCache[hashText(text)].embedding>>
                       ELSE NullEmbedding]
  /\ embeddingCache' = IF Fresh(text) THEN embeddingCache ELSE Delete(hashText(text))
  /\ UNCHANGED <<sync, arg, dateNow, hook, embedCalls, web>>

\* cacheEmbedding(text, embedding)
cacheEmbedding(text, embedding) ==
  /\ embeddingCache' =
       [k \in DOMAIN embeddingCache \cup {hashText(text)} |->
          IF k = hashText(text)
          THEN [embedding |-> embedding, timestamp |-> dateNow, ttl |-> ttl]
          ELSE embeddingCache[k]]
  /\ UNCHANGED <<sync, pure, dateNow, hook, embedCalls, web>>

\* time passes between two calls
AdvanceClock(t) ==
  /\ t \in Times
  /\ t > dateNow
  /\ dateNow' = t
  /\ UNCHANGED <<sync, pure, embeddingCache, hook, embedCalls, web>>

\* ----------------------------------------------------------- getEmbedding
\* callers are numbered in the order they call
NextCaller(c) ==
  embedCalls[c].pc = "free" /\ \A q \in Callers : q < c => embedCalls[q].pc # "free"

\* a getEmbedding call has failed because the model could not be loaded
ModelFailed == \E c \in Callers : embedCalls[c].result.kind = "throws"

\* getEmbedding(text) is called and awaits pipeline(...); the call is marked
\* when it is made after a failed load
getEmbedding_call(c, text) ==
  /\ NextCaller(c)
  /\ embedCalls' = [embedCalls EXCEPT ![c] =
       [FreeCall EXCEPT !.pc = "pipeline", !.text = text, !.after_failure = ModelFailed]]
  /\ UNCHANGED <<sync, pure, embeddingCache, dateNow, hook, web>>

\* pipeline(...) resolves and the call awaits extractor(text, ...)
getEmbedding_extract(c) ==
  /\ embedCalls[c].pc = "pipeline"
  /\ embedCalls' = [embedCalls EXCEPT ![c].pc = "extract"]
  /\ UNCHANGED <<sync, pure, embeddingCache, dateNow, hook, web>>

\* pipeline(...) rejects: the model could not be loaded
getEmbedding_throws(c) ==
  /\ embedCalls[c].pc = "pipeline"
  /\ embedCalls' = [embedCalls EXCEPT ![c].pc = "done", ![c].result = [kind |-> "throws"]]
  /\ UNCHANGED <<sync, pure, embeddingCache, dateNow, hook, web>>

\* mutant: the save writes the embedding and leaves the stored content
saveCard_embedding_only(i, text, embedding) ==
  [cards EXCEPT ![i].content_embedding = <<embedding>>]

\* what the effect of a card save does with the embedding:
\* saveCard({ ...cardContent, content_embedding: embedding })
saveCard(i, text, embedding) ==
  [cards EXCEPT ![i].back_content = text, ![i].content_embedding = <<embedding>>]

\* mutant: the call returns the vector the cache holds for the text
getEmbedding_return_cached(c) ==
  /\ embedCalls[c].pc = "extract"
  /\ embedCalls[c].card = 0
  /\ embedCalls' = [embedCalls EXCEPT ![c].pc = "done", ![c].result =
       [kind |-> "vector",
        value |-> IF Fresh(embedCalls[c].text)
                  THEN embeddingCache[hashText(embedCalls[c].text)].embedding
                  ELSE getEmbedding(embedCalls[c].text)]]
  /\ UNCHANGED <<sync, pure, embeddingCache, dateNow, hook, web>>

\* mutant: the vector the extractor returns depends on the time of the call
getEmbedding_return_drifting(c) ==
  /\ embedCalls[c].pc = "extract"
  /\ embedCalls[c].card = 0
  /\ embedCalls' = [embedCalls EXCEPT ![c].pc = "done", ![c].result =
       [kind |-> "vector",
        value |-> IF dateNow = 0 THEN getEmbedding(embedCalls[c].text)
                  ELSE getEmbedding("a")]]
  /\ UNCHANGED <<sync, pure, embeddingCache, dateNow, hook, web>>

\* the extractor returns and getEmbedding returns Array.from(embedding.data);
\* a card save goes on to saveCard
getEmbedding_return(c) ==
  /\ embedCalls[c].pc = "extract"
  /\ embedCalls' = [embedCalls EXCEPT ![c].pc = "done", ![c].result =
       [kind |-> "vector", value |-> getEmbedding(embedCalls[c].text)]]
  /\ cards' = IF embedCalls[c].card = 0 THEN cards
              ELSE saveCard(embedCalls[c].card, embedCalls[c].text,
                            getEmbedding(embedCalls[c].text))
  /\ UNCHANGED <<decks, github_exports, remote, req, breaker, jobs, now, nextDeck, nextCard,
                 pure, embeddingCache, dateNow, hook, web>>

\* the effect of a card save: cardContent has changed, getEmbedding is awaited
useEffect_save(c, i, text) ==
  /\ NextCaller(c)
  /\ i \in 1..Len(cards)
  /\ embedCalls' = [embedCalls EXCEPT ![c] =
       [FreeCall EXCEPT !.pc = "pipeline", !.text = text, !.card = i,
                        !.after_failure = ModelFailed]]
  /\ UNCHANGED <<sync, pure, embeddingCache, dateNow, hook, web>>

\* CardBuilder: mutation.mutate(values) posts the form to /cards
CreateCard(d, text, tags) ==
  /\ d \in DOMAIN decks
  /\ nextCard <= MaxCards
  /\ cards' = Append(cards, NewCard(nextCard, d, text, tags))
  /\ nextCard' = nextCard + 1
  /\ UNCHANGED <<decks, github_exports, remote, req, breaker, jobs, now, nextDeck, pure, embed, web>>

\* ----------------------------------------------------------- useEmbedding
\* initModel: pipeline(...) resolves
initModel_loaded ==
  /\ hook.initModel = "pending"
  /\ hook' = [extractor |-> "model", isLoading |-> FALSE, initModel |-> "loaded"]
  /\ UNCHANGED <<sync, pure, embeddingCache, dateNow, embedCalls, web>>

\* initModel: pipeline(...) rejects, nothing catches it
initModel_failed ==
  /\ hook.initModel = "pending"
  /\ hook' = [hook EXCEPT !.initModel = "failed"]
  /\ UNCHANGED <<sync, pure, embeddingCache, dateNow, embedCalls, web>>

\* embed(text) of the hook
useEmbedding_embed(text) ==
  /\ out' = IF hook.extractor = NULL
            THEN [kind |-> "embed", text |-> text, result |-> [kind |-> "throws"]]
            ELSE [kind |-> "embed", text |-> text,
                  result |-> [kind |-> "vector", value |-> getEmbedding(text)]]
  /\ UNCHANGED <<sync, arg, embed, web>>

\* ------------------------------------------- embedding specifications
CacheInit ==
  /\ EmptyStore
  /\ InitRest
  /\ breaker = [state |-> "closed", fail_counter |-> 0]
  /\ arg = NoValue
  /\ out = NoValue

\* texts that are looked up: the cached texts and "a" in another spelling
CacheTexts == Texts \cup {" A "}

\* two callers of getEmbedding next to the users of the cache
CacheCallers == {1, 2}

CacheNext ==
  \/ \E t \in CacheTexts : getCachedEmbedding(t)
  \/ \E t \in Texts, x \in Texts : cacheEmbedding(t, getEmbedding(x))
  \/ \E t \in Times : AdvanceClock(t)
  \/ \E c \in CacheCallers, t \in Texts : getEmbedding_call(c, t)
  \/ \E c \in CacheCallers : getEmbedding_extract(c)
  \/ \E c \in CacheCallers : getEmbedding_throws(c)
  \/ \E c \in CacheCallers : getEmbedding_return(c)

CacheSpec == CacheInit /\ [][CacheNext]_vars

EmbedInit ==
  /\ SeededStore
  /\ InitRest
  /\ breaker = [state |-> "closed", fail_counter |-> 0]
  /\ arg = NoValue
  /\ out = NoValue

EmbedNext ==
  \/ \E t \in Texts : CreateCard(1, t, <<>>)
  \/ \E i \in CardIds, t \in Texts : UpdateCard(i, t)
  \/ \E c \in Callers, i \in CardIds, t \in Texts : useEffect_save(c, i, t)
  \/ \E c \in Callers : getEmbedding_extract(c)
  \/ \E c \in Callers : getEmbedding_throws(c)
  \/ \E c \in Callers : getEmbedding_return(c)

EmbedSpec == EmbedInit /\ [][EmbedNext]_vars

HookInit ==
  /\ EmptyStore
  /\ InitRest
  /\ breaker = [state |-> "closed", fail_counter |-> 0]
  /\ arg = NoValue
  /\ out = NoValue

HookNext ==
  \/ initModel_loaded
  \/ initModel_failed
  \/ \E t \in Texts : useEmbedding_embed(t)
  \/ \E c \in Callers, t \in Texts : getEmbedding_call(c, t)
  \/ \E c \in Callers : getEmbedding_extract(c)
  \/ \E c \in Callers : getEmbedding_throws(c)
  \/ \E c \in Callers : getEmbedding_return(c)

HookSpec == HookInit /\ [][HookNext]_vars

\* ---------------------------------------------------------- claim C14
\* the cache holds an entry for the text that is no longer fresh
Stale(text) == hashText(text) \in DOMAIN embeddingCache /\ ~Fresh(text)

C16_CacheBeforeModel ==
  [][\A c \in Callers :
       /\ getEmbedding_extract(c) => ~Fresh(embedCalls[c].text)
       /\ getEmbedding_return(c) => Fresh(embedCalls[c].text)']_vars

\* ---------------------------------------------------------- claim C17
\* C17: of the getEmbedding calls in flight for one text at most one has
\* invoked the model.
C17_Coalesced ==
  \A t \in Texts :
    Cardinality({c \in Callers : embedCalls[c].pc = "extract" /\ embedCalls[c].text = t}) <= 1

\* ---------------------------------------------------------- claim C18
\* C18: once the model has failed to load, no embedding operation returns a
\* vector: embed of a hook whose load failed throws, and a getEmbedding call
\* made after a getEmbedding call failed does not return one.
C18_FailFast ==
  [][/\ hook.initModel = "failed" =>
          \A t \in Texts : useEmbedding_embed(t) => out'.result.kind = "throws"
     /\ \A c \in Callers : getEmbedding_return(c) => ~embedCalls[c].after_failure]_vars

\* ---------------------------------------------------------- claim C19
\* C19: the vector getEmbedding returns for a text is the model's vector for
\* that text, whatever the cache holds.
C19_CacheNoOp ==
  \A c \in Callers :
    embedCalls[c].result.kind = "vector" =>
      embedCalls[c].result.value = getEmbedding(embedCalls[c].text)

\* C19 witness: getEmbedding has returned for a text for which the cache
\* holds a fresh entry with another vector.
C19_Witness ==
  \E c \in Callers :
    /\ embedCalls[c].result.kind = "vector"
    /\ Fresh(embedCalls[c].text)
    /\ embeddingCache[hashText(embedCalls[c].text)].embedding # getEmbedding(embedCalls[c].text)

\* ---------------------------------------------------------- claim C20
\* C20: the number of entries stays below an upper bound: a cacheEmbedding
\* evicts an entry before the cache holds every text that was put.
C20_CapacityBound == Cardinality(DOMAIN embeddingCache) < Cardinality(Texts)

\* ---------------------------------------------------------- claim C21
\* C21: the cache key depends on the normalized text only: a get for a text
\* is a hit that returns the vector cached under any text of the same
\* normalized form ("a" and " A " have the same form).
C21_NormalizedKey ==
  [][\A t1 \in Texts, t2 \in CacheTexts :
       ((t1 = t2 \/ {t1, t2} = {"a", " A "}) /\ Fresh(t1) /\ getCachedEmbedding(t2)) =>
         out'.value = <<embeddingCache[hashText(t1)].embedding>>]_vars

C29_EvictedAfterTtl ==
  [][\A t \in Texts :
       (/\ getCachedEmbedding(t)
        /\ hashText(t) \in DOMAIN embeddingCache
        /\ dateNow - embeddingCache[hashText(t)].timestamp <= ttl * 1000) =>
         /\ out'.value = <<embeddingCache[hashText(t)].embedding>>
         /\ hashText(t) \in DOMAIN embeddingCache']_vars

\* ---------------------------------------------------------- claim C23
\* C23: the model is loaded once: embed of the hook called while the model
\* is loading does not fail, and a getEmbedding call starts a load only when
\* no call before it has started one.
C23_LoadedOnce ==
  [][/\ hook.initModel = "pending" =>
          \A t \in Texts : useEmbedding_embed(t) => out'.result.kind = "vector"
     /\ \A c \in Callers, t \in Texts :
          getEmbedding_call(c, t) => \A q \in Callers : embedCalls[q].pc = "free"]_vars

\* ---------------------------------------------------------- claim C24
\* C24: a card that an import stored without an embedding keeps no embedding
\* until a search computes it: no job embeds the card ahead of a search.
C24_LazyEmbedding == [][\A id \in CardIds : ~EmbedJob(id)]_vars

\* ---------------------------------------------------------- claim C25
\* C25: a search over cards of which some have no usable embedding ends with
\* a ranked result of the other cards and does not throw.
C25_GracefulSearch ==
  /\ out.kind # "throws"
  /\ out.kind = "results" =>
       \A i \in 1..Len(out.rows) : ~cosineSimilarity(arg.query, EmbeddingOf(out.rows[i].id)).nan

ToVector(v) == [dims |-> Len(v), data |-> v]

\* the cast result does not fit the column vector(n) of another length
CastFails(new) ==
  IF new.content_embedding = NullEmbedding THEN FALSE
  ELSE Len(new.content_embedding[1]) # EmbeddingDim

\* sync_embeddings(), the BEFORE INSERT OR UPDATE trigger of cards
sync_embeddings(new) ==
  IF new.content_embedding # NullEmbedding
  THEN [new EXCEPT !.content_embedding_pgvector = <<ToVector(new.content_embedding[1])>>]
  ELSE new

\* the embeddings a statement writes: those of the model and one of another
\* model's length
PgEmbeddings ==
  {NullEmbedding} \cup {<<getEmbedding(t)>> : t \in Texts}
                  \cup {<<[i \in 1..(EmbeddingDim + 1) |-> 1]>>}

\* INSERT INTO cards (back_content, content_embedding) VALUES (text, e)
pg_insert(text, e) ==
  /\ Len(pg_cards) < MaxCards
  /\ LET new == [back_content |-> text, content_embedding |-> e,
                 content_embedding_pgvector |-> NullEmbedding]
     IN pg_cards' = IF CastFails(new) THEN pg_cards
                    ELSE Append(pg_cards, sync_embeddings(new))
  /\ UNCHANGED <<sync, pure, embed, authStore, localStorage, rls_rows>>

\* UPDATE cards SET content_embedding = e WHERE id = i
pg_update_embedding(i, e) ==
  /\ i \in 1..Len(pg_cards)
  /\ LET new == [pg_cards[i] EXCEPT !.content_embedding = e]
     IN pg_cards' = IF CastFails(new) THEN pg_cards
                    ELSE [pg_cards EXCEPT ![i] = sync_embeddings(new)]
  /\ UNCHANGED <<sync, pure, embed, authStore, localStorage, rls_rows>>

\* UPDATE cards SET back_content = text WHERE id = i
pg_update_content(i, text) ==
  /\ i \in 1..Len(pg_cards)
  /\ pg_cards' = [pg_cards EXCEPT ![i] = sync_embeddings([pg_cards[i] EXCEPT !.back_content = text])]
  /\ UNCHANGED <<sync, pure, embed, authStore, localStorage, rls_rows>>

PgInit ==
  /\ EmptyStore
  /\ InitRest
  /\ breaker = [state |-> "closed", fail_counter |-> 0]
  /\ arg = NoValue
  /\ out = NoValue

PgNext ==
  \/ \E t \in Texts, e \in PgEmbeddings : pg_insert(t, e)
  \/ \E i \in CardIds, e \in PgEmbeddings : pg_update_embedding(i, e)
  \/ \E i \in CardIds, t \in Texts : pg_update_content(i, t)

PgSpec == PgInit /\ [][PgNext]_vars

\* ---------------------------------------------------------- claim C26
\* C26: after every insert or update the pgvector column of a card is the
\* vector form of its content_embedding, and is NULL when that is NULL.
C26_PgvectorInSync ==
  \A i \in 1..Len(pg_cards) :
    IF pg_cards[i].content_embedding = NullEmbedding
    THEN pg_cards[i].content_embedding_pgvector = NullEmbedding
    ELSE pg_cards[i].content_embedding_pgvector = <<ToVector(pg_cards[i].content_embedding[1])>>

\* ------------------------------------------------ row-level security
\* auth.uid() of the users that are signed in
Users == {"u1", "u2"}

Tables == {"decks", "cards", "card_templates", "github_exports"}

RowIds == 1..MaxRows

\* the policies of a table for a command, permissive policies being OR-ed;
\* a policy FOR ALL without WITH CHECK checks new rows with its USING
Policy(cmd, uid, row) ==
  IF row.table = "card_templates"
  THEN \/ uid = row.user_id \/ row.is_default = TRUE
       \/ cmd = "SELECT" /\ row.is_default = TRUE
  ELSE uid = row.user_id

\* the database after the seed: a deck of u1, a default template and a
\* custom template of u1
SeededRows ==
  <<[table |-> "decks", user_id |-> "u1", is_default |-> FALSE],
    [table |-> "card_templates", user_id |-> NULL, is_default |-> TRUE],
    [table |-> "card_templates", user_id |-> "u1", is_default |-> FALSE]>>

\* the rows a statement can write into a table
NewRows(tb) ==
  IF tb = "card_templates"
  THEN [table : {tb}, user_id : Users \cup {NULL}, is_default : BOOLEAN]
  ELSE [table : {tb}, user_id : Users, is_default : {FALSE}]

\* SELECT * FROM tb as user uid
rls_select(uid, tb) ==
  /\ out' = [kind |-> "select", uid |-> uid, table |-> tb,
             ids |-> {i \in DOMAIN rls_rows :
                        rls_rows[i].table = tb /\ Policy("SELECT", uid, rls_rows[i])}]
  /\ arg' = [kind |-> "sql", cmd |-> "SELECT", uid |-> uid]
  /\ UNCHANGED <<sync, embed, web>>

\* INSERT INTO tb VALUES (new) as user uid
rls_insert(uid, new) ==
  /\ \E i \in RowIds : i \notin DOMAIN rls_rows
  /\ Policy("INSERT", uid, new)
  /\ LET i == CHOOSE j \in RowIds : j \notin DOMAIN rls_rows /\ \A k \in 1..(j - 1) : k \in DOMAIN rls_rows
     IN rls_rows' = [k \in DOMAIN rls_rows \cup {i} |-> IF k = i THEN new ELSE rls_rows[k]]
  /\ arg' = [kind |-> "sql", cmd |-> "INSERT", uid |-> uid]
  /\ out' = NoValue
  /\ UNCHANGED <<sync, embed, authStore, localStorage, pg_cards>>

\* UPDATE ... SET user_id, is_default WHERE id = i as user uid
rls_update(uid, i, new) ==
  /\ i \in DOMAIN rls_rows
  /\ new.table = rls_rows[i].table
  /\ new # rls_rows[i]
  /\ Policy("UPDATE", uid, rls_rows[i])
  /\ Policy("UPDATE", uid, new)
  /\ rls_rows' = [rls_rows EXCEPT ![i] = new]
  /\ arg' = [kind |-> "sql", cmd |-> "UPDATE", uid |-> uid]
  /\ out' = NoValue
  /\ UNCHANGED <<sync, embed, authStore, localStorage, pg_cards>>

\* DELETE ... WHERE id = i as user uid
rls_delete(uid, i) ==
  /\ i \in DOMAIN rls_rows
  /\ Policy("DELETE", uid, rls_rows[i])
  /\ rls_rows' = [k \in DOMAIN rls_rows \ {i} |-> rls_rows[k]]
  /\ arg' = [kind |-> "sql", cmd |-> "DELETE", uid |-> uid]
  /\ out' = NoValue
  /\ UNCHANGED <<sync, embed, authStore, localStorage, pg_cards>>

RlsInit ==
  /\ EmptyStore
  /\ InitCore
  /\ useAuthStore_create(NoItem)
  /\ pg_cards = <<>>
  /\ rls_rows = SeededRows
  /\ breaker = [state |-> "closed", fail_counter |-> 0]
  /\ arg = NoValue
  /\ out = NoValue

RlsNext ==
  \/ \E uid \in Users, tb \in Tables : rls_select(uid, tb)
  \/ \E uid \in Users, tb \in Tables : \E new \in NewRows(tb) : rls_insert(uid, new)
  \/ \E uid \in Users, i \in RowIds, tb \in Tables : \E new \in NewRows(tb) : rls_update(uid, i, new)
  \/ \E uid \in Users, i \in RowIds : rls_delete(uid, i)

RlsSpec == RlsInit /\ [][RlsNext]_vars

\* ---------------------------------------------------------- claim C27
\* C27: a user reads only own rows and default templates; a deck, card or
\* export record that a statement of the user creates, changes or deletes
\* has the user's user_id; a template that a statement of the user changes
\* or deletes is a custom template of that user, never a default template.
C27_RowLevelSecurity ==
  [][/\ \A uid \in Users, tb \in Tables :
          rls_select(uid, tb) =>
            \A i \in out'.ids : rls_rows[i].user_id = uid \/ rls_rows[i].is_default = TRUE
     /\ \A i \in RowIds :
          (/\ i \in DOMAIN rls_rows
           /\ IF i \in DOMAIN rls_rows' THEN rls_rows'[i] # rls_rows[i] ELSE TRUE) =>
            rls_rows[i].user_id = arg'.uid /\ rls_rows[i].is_default = FALSE
     /\ \A i \in RowIds :
          (/\ i \in DOMAIN rls_rows'
           /\ rls_rows'[i].table # "card_templates"
           /\ IF i \in DOMAIN rls_rows THEN rls_rows'[i] # rls_rows[i] ELSE TRUE) =>
            rls_rows'[i].user_id = arg'.uid]_vars

\* ---------------------------------------------------------- auth store
\* the tokens the API hands out
Tokens == {"tok1", "tok2"}

\* what the page can find under "auth_token" when it loads
StoredItems == {NoItem, <<"">>} \cup {<<t>> : t \in Tokens}

\* the call is appended to the calls made so far
Called(op, v) ==
  /\ Len(arg.calls) < MaxCalls
  /\ arg' = [arg EXCEPT !.calls = Append(@, [op |-> op, v |-> v])]

\* setUser: (user) => set({ user })
setUser(user) ==
  /\ Called("setUser", user)
  /\ authStore' = [authStore EXCEPT !.user = user]
  /\ UNCHANGED <<sync, out, embed, localStorage, rls_rows, pg_cards>>

\* variant: a falsy token leaves the item in localStorage
setToken_keeps_item(token) ==
  /\ Called("setToken", token)
  /\ IF token # NULL /\ token # ""
     THEN /\ localStorage' = <<token>>
          /\ authStore' = [authStore EXCEPT !.token = token, !.isAuthenticated = TRUE]
     ELSE /\ localStorage' = localStorage
          /\ authStore' = [authStore EXCEPT !.token = NULL, !.isAuthenticated = FALSE]
  /\ UNCHANGED <<sync, out, embed, rls_rows, pg_cards>>

\* setToken: a truthy token is stored and signs in, null or "" removes the item
setToken(token) ==
  /\ Called("setToken", token)
  /\ IF token # NULL /\ token # ""
     THEN /\ localStorage' = <<token>>
          /\ authStore' = [authStore EXCEPT !.token = token, !.isAuthenticated = TRUE]
     ELSE /\ localStorage' = NoItem
          /\ authStore' = [authStore EXCEPT !.token = NULL, !.isAuthenticated = FALSE]
  /\ UNCHANGED <<sync, out, embed, rls_rows, pg_cards>>

logout ==
  /\ Called("logout", NULL)
  /\ localStorage' = NoItem
  /\ authStore' = [user |-> NULL, token |-> NULL, isAuthenticated |-> FALSE]
  /\ UNCHANGED <<sync, out, embed, rls_rows, pg_cards>>

AuthInit ==
  /\ EmptyStore
  /\ InitCore
  /\ InitTables
  /\ \E item \in StoredItems : useAuthStore_create(item)
  /\ breaker = [state |-> "closed", fail_counter |-> 0]
  /\ arg = [kind |-> "auth", calls |-> <<>>]
  /\ out = NoValue

AuthNext ==
  \/ \E user \in Users \cup {NULL} : setUser(user)
  \/ \E token \in Tokens \cup {NULL, ""} : setToken(token)
  \/ logout

AuthSpec == AuthInit /\ [][AuthNext]_vars

\* ---------------------------------------------------------- claim C30
\* C30: after any sequence of setUser, setToken and logout calls,
\* isAuthenticated is true exactly when token is a non-empty string, the
\* item "auth_token" of localStorage is that token and is absent when token
\* is null; logout leaves user and token null and isAuthenticated false, and
\* setToken(null) leaves user as it was.
C30_AuthConsistency ==
  /\ [](/\ authStore.isAuthenticated <=> (authStore.token # NULL /\ authStore.token # "")
        /\ IF authStore.token = NULL
           THEN localStorage = NoItem
           ELSE localStorage = <<authStore.token>>)
  /\ [][/\ logout => /\ authStore'.user = NULL
                     /\ authStore'.token = NULL
                     /\ authStore'.isAuthenticated = FALSE
        /\ setToken(NULL) => authStore'.user = authStore.user]_vars

\* a user signed in with a token, then setToken(null) was called
C30_Witness ==
  /\ arg.kind = "auth"
  /\ arg.calls = <<[op |-> "setUser", v |-> "u1"],
                   [op |-> "setToken", v |-> "tok1"],
                   [op |-> "setToken", v |-> NULL]>>
  /\ authStore = [user |-> "u1", token |-> NULL, isAuthenticated |-> FALSE]
  /\ localStorage = NoItem

\* ------------------------------------------------------- specifications
\* the export endpoint under concurrent requests, GitHub failures and time;
\* the breaker is shared by the whole server: it starts closed, one failure
\* from opening, or open
ExportInit ==
  /\ EmptyStore \/ SeededStore
  /\ InitRest
  /\ arg = NoValue /\ out = NoValue
  /\ breaker \in {[state |-> "closed", fail_counter |-> 0],
                  [state |-> "closed", fail_counter |-> fail_max - 1],
                  [state |-> "open", fail_counter |-> fail_max]}

ExportNext ==
  \/ \E n \in Names, ds \in FormDescs : CreateDeck(n, ds)
  \/ \E d \in DeckIds : DeleteDeck(d)
  \/ \E r \in Reqs, d \in DeckIds, u \in Urls : export_to_github(r, d, u)
  \/ \E r \in Reqs : ExportOk(r)
  \/ \E r \in Reqs : ExportErr(r)
  \/ BreakerTimeout
  \/ Tick

ExportSpec == ExportInit /\ [][ExportNext]_vars

\* time passes; nothing obliges GitHub to answer a call
FairExportSpec == ExportSpec /\ WF_vars(Tick)

\* the import endpoint against decks that were exported, renamed and edited
ImportInit ==
  /\ SeededStore
  /\ InitRest
  /\ arg = NoValue /\ out = NoValue
  /\ breaker = [state |-> "closed", fail_counter |-> 0]

ImportNext ==
  \/ \E d \in DeckIds, n \in Names : UpdateDeck(d, n)
  \/ \E d \in DeckIds : DeleteDeck(d)
  \/ \E i \in CardIds, t \in Texts : UpdateCard(i, t)
  \/ \E r \in Reqs, d \in DeckIds, u \in Urls : export_to_github(r, d, u)
  \/ \E r \in Reqs : ExportOk(r)
  \/ \E u \in Urls : RemotePush(u, Garbage)
  \/ \E r \in Reqs, u \in Urls : import_from_github(r, u)
  \/ \E r \in Reqs : ImportFetched(r)
  \/ \E r \in Reqs : ImportFetchErr(r)
  \/ \E r \in Reqs : ImportCreateDeck(r)
  \/ \E r \in Reqs : ImportCreateCards(r)
  \/ \E id \in CardIds : EmbedJob(id)

ImportSpec == ImportInit /\ [][ImportNext]_vars
====
